---- MODULE Spec2Model ----
(***************************************************************************)
(* Model of build-and-push-action.                                         *)
(*  - the vendored GraphQL client: Client.request / processResponse / do / *)
(*    doRaw / Exec, the two client derivations WithDebug and               *)
(*    WithRequestModifier, and the debug capture helpers withRequest /     *)
(*    withResponse / getInternalExtension;                                 *)
(*  - the action itself (main.go): argument reading and the six steps      *)
(*    getBearerToken .. addArtifact.                                       *)
(***************************************************************************)
EXTENDS Integers, Sequences, FiniteSets, TLC

VARIABLES clients,      \* the Client values allocated so far
          origin,       \* how each of them was made: receiver, operation, argument
          pc,           \* "idle", "sent" (inside Doer.Do), "done", "panic"
          call,         \* the inputs of the call in progress
          httpRequest,  \* the *http.Request handed to the transport
          events,       \* modifier and transport invocations of this call, in order
          doResult,     \* what Doer.Do returned
          output,       \* the caller's output value v
          extOut,       \* the caller's bound extensions target
          retData,      \* the raw data bytes a raw variant returns
          retErr,       \* the error the call returns
          calls,        \* the logical calls running concurrently, one record each
          osArgs,       \* os.Args of the action process
          mainPc,       \* where main is: "start", a step's name, "completed", "fatal", "panic"
          locals,       \* main's local variables
          steps,        \* the steps main has run, in order, each with the error it returned
          effects,      \* what the steps did to the outside world, in order
          fatal         \* the message of the log.Fatalf that ended main

vars == <<clients, origin, pc, call, httpRequest, events, doResult,
          output, extOut, retData, retErr,
          calls, osArgs, mainPc, locals, steps, effects, fatal>>

mainVars == <<osArgs, mainPc, locals, steps, effects, fatal>>

callVars == <<pc, call, httpRequest, events, doResult, output, extOut, retData, retErr>>

(***************************************************************************)
(* Bounds                                                                  *)
(***************************************************************************)
MaxErrors == 2       \* longest "errors" array a server answers with
MaxClients == 3      \* client values alive in the derivation specification
MaxArgs == 8         \* most arguments the action process is started with
MaxShared == 2       \* client values shared by the concurrent calls

(***************************************************************************)
(* Program constants                                                       *)
(***************************************************************************)
StatusOK == 200
UsageLen == 7        \* the len(os.Args) main asks for
LastArg == 7         \* the highest index of os.Args main reads
ErrRequestError == "request_error"
ErrJsonDecode == "json_decode_error"
ErrGraphQLEncode == "graphql_encode_error"
ErrGraphQLDecode == "graphql_decode_error"
ErrGraphQLExtensionsDecode == "graphql_extensions_decode_error"

(***************************************************************************)
(* Client values.  A *Client is an index into the sequence clients.        *)
(***************************************************************************)
GoodURL == "https://api.trynova.ai/graphql"
BadURL == "://not-a-url"
URLs == {GoodURL, BadURL}
NoModifier == "nil"
Modifiers == {"f", "g"}
DefaultTransport == "httpClient"

Client == [url : URLs, httpClient : {DefaultTransport},
           requestModifier : Modifiers \cup {NoModifier}, debug : BOOLEAN]

NewClient(url, httpClient) ==
    [url |-> url, httpClient |-> httpClient,
     requestModifier |-> NoModifier, debug |-> FALSE]

\* Mutant: the copy keeps the receiver's debug flag.
WithRequestModifierKeepsDebug(cs, c, f) ==
    Append(cs, [url |-> cs[c].url, httpClient |-> cs[c].httpClient,
                requestModifier |-> f, debug |-> cs[c].debug])

\* Both derivations allocate a fresh Client and leave the receiver alone.
WithRequestModifier(cs, c, f) ==
    Append(cs, [url |-> cs[c].url, httpClient |-> cs[c].httpClient,
                requestModifier |-> f, debug |-> FALSE])

\* Mutant: the flag is set on the receiver, which is then copied.
WithDebugShared(cs, c, debug) ==
    Append([cs EXCEPT ![c].debug = debug], [cs[c] EXCEPT !.debug = debug])

WithDebug(cs, c, debug) ==
    Append(cs, [url |-> cs[c].url, httpClient |-> cs[c].httpClient,
                requestModifier |-> cs[c].requestModifier, debug |-> debug])

(***************************************************************************)
(* Errors.  Extensions is a map[string]any; the keys the code reads or     *)
(* writes are code, request and internal.  internal is absent, a JSON      *)
(* object, or some other JSON value ("scalar").                            *)
(***************************************************************************)
NoCapture == [present |-> FALSE, headers |-> {}, body |-> <<>>]
Captured(headers, body) == [present |-> TRUE, headers |-> headers, body |-> <<body>>]

NoInternal == [kind |-> "absent", request |-> NoCapture, response |-> NoCapture]
EmptyInternal == [kind |-> "object", request |-> NoCapture, response |-> NoCapture]
ScalarInternal == [kind |-> "scalar", request |-> NoCapture, response |-> NoCapture]

NilExtensions == [isNil |-> TRUE, code |-> "", request |-> "", internal |-> NoInternal]
EmptyExtensions == [isNil |-> FALSE, code |-> "", request |-> "", internal |-> NoInternal]

NoWrapped == [type |-> "nil", statusCode |-> 0, body |-> <<>>]
PlainWrapped == [type |-> "error", statusCode |-> 0, body |-> <<>>]
NetworkError(statusCode, body) ==
    [type |-> "NetworkError", statusCode |-> statusCode, body |-> <<body>>]

newError(code, err, message) ==
    [message |-> message,
     extensions |-> [EmptyExtensions EXCEPT !.code = code],
     err |-> err]

\* Result of a helper that may panic.
Panicked(e) == [panic |-> TRUE, e |-> e]
Returned(e) == [panic |-> FALSE, e |-> e]

getInternalExtension(e) ==
    IF e.extensions.isNil THEN Returned(EmptyInternal)
    ELSE IF e.extensions.internal.kind # "absent"
         THEN IF e.extensions.internal.kind = "object"
              THEN Returned(e.extensions.internal)
              ELSE Panicked(e.extensions.internal)      \* ex.(map[string]any)
    ELSE Returned(EmptyInternal)

\* An *http.Request: nil when http.NewRequestWithContext failed.
NilRequest == [isNil |-> TRUE, header |-> {}, body |-> ""]

withRequest(e, req, bodyBytes) ==
    LET internal == getInternalExtension(e) IN
    IF internal.panic THEN Panicked(e)
    ELSE IF req.isNil THEN Panicked(e)                  \* req.Header on a nil request
    ELSE LET filled == [internal.e EXCEPT !.request = Captured(req.header, bodyBytes)]
             ext == IF e.extensions.isNil THEN EmptyExtensions ELSE e.extensions
         IN Returned([e EXCEPT !.extensions = [ext EXCEPT !.internal = filled]])

withResponse(e, resHeader, bodyBytes) ==
    LET internal == getInternalExtension(e) IN
    IF internal.panic THEN Panicked(e)
    ELSE IF e.extensions.isNil THEN Panicked(e)         \* assignment to entry in nil map
    ELSE LET filled == [internal.e EXCEPT !.response = Captured(resHeader, bodyBytes)]
         IN Returned([e EXCEPT !.extensions.internal = filled])

(***************************************************************************)
(* Transport responses.  A body is the bytes on the wire: a JSON document  *)
(* (an envelope or something that does not decode as one), possibly        *)
(* gzip-compressed, or a stream whose read fails.                          *)
(***************************************************************************)
DataKinds == {"absent", "null", "fits", "misfits"}
ExtensionsKinds == {"absent", "fits", "misfits"}

ServerExtensions ==
    { NilExtensions,
      [EmptyExtensions EXCEPT !.code = "NOT_FOUND"],
      [EmptyExtensions EXCEPT !.request = "srv"],
      [EmptyExtensions EXCEPT !.internal = ScalarInternal],
      [EmptyExtensions EXCEPT !.internal = EmptyInternal] }

ServerError == [message : {"not found"}, extensions : ServerExtensions, err : {NoWrapped}]

SeqsUpTo(S, n) == UNION { [1..k -> S] : k \in 0..n }

Envelope == [kind : {"envelope"}, data : DataKinds, extensions : ExtensionsKinds,
             errors : SeqsUpTo(ServerError, MaxErrors)]
NoEnvelope(kind) == [kind |-> kind, data |-> "absent", extensions |-> "absent", errors |-> <<>>]
Malformed == NoEnvelope("malformed")
ReadError == NoEnvelope("readerr")
SampleEnvelope == [kind |-> "envelope", data |-> "fits", extensions |-> "absent", errors |-> <<>>]

Body(gz, doc) == [gz |-> gz, doc |-> doc]
\* What a reader over a body yields: all of it, what is left after the gzip
\* reader consumed the head of the stream, or nothing.
Text(body, part) == [body |-> body, part |-> part]

Statuses == {StatusOK, 204, 500}
Header(contentEncoding) == IF contentEncoding = "gzip" THEN {"Content-Encoding: gzip"} ELSE {}

Response(status, contentEncoding, body) ==
    [status |-> status, contentEncoding |-> contentEncoding, body |-> body]

OKResponses ==
    { Response(StatusOK, ce, Body(gz, doc)) :
        ce \in {"", "gzip"}, gz \in BOOLEAN, doc \in Envelope \cup {Malformed} }
    \cup { Response(StatusOK, ce, Body(FALSE, ReadError)) : ce \in {"", "gzip"} }
OtherResponses ==
    { Response(st, ce, Body(gz, doc)) :
        st \in Statuses \ {StatusOK}, ce \in {"", "gzip"}, gz \in BOOLEAN,
        doc \in {SampleEnvelope, Malformed} }
Responses == OKResponses \cup OtherResponses

NilResponse == Response(0, "", Body(FALSE, Malformed))
\* What Doer.Do returns: (nil, err) or (resp, nil).
DoFailed == [err |-> TRUE, resp |-> NilResponse]
DoReturned(resp) == [err |-> FALSE, resp |-> resp]
DoResults == {DoFailed} \cup { DoReturned(r) : r \in Responses }

(***************************************************************************)
(* Client.request, lines 173-202: encode the payload, build the request    *)
(* and run the request modifier.  stage is "failed" (errors returned),     *)
(* "panic", or "ready" (the request is about to be handed to Doer.Do).     *)
(***************************************************************************)
Queries == {"mutation($input:AddArtifactInput!){addArtifact(input:$input){id}}"}

Errors1(e) == <<e>>

Prepared(stage, req, ev, errs) ==
    [stage |-> stage, request |-> req, events |-> ev, errs |-> errs]

\* Mutant: the modifier runs again on the way to the transport.
applyModifierTwice(c, req, ev) ==
    IF c.requestModifier # NoModifier
    THEN [request |-> [req EXCEPT !.header = @ \cup {c.requestModifier}],
          events |-> ev \o <<"modifier", "modifier">>]
    ELSE [request |-> req, events |-> ev]

applyModifier(c, req, ev) ==
    IF c.requestModifier # NoModifier
    THEN [request |-> [req EXCEPT !.header = @ \cup {c.requestModifier}],
          events |-> Append(ev, "modifier")]
    ELSE [request |-> req, events |-> ev]

requestPrepare(c, query, encodeOK) ==
    IF ~encodeOK
    THEN Prepared("failed", NilRequest, <<>>,
                  Errors1(newError(ErrGraphQLEncode, PlainWrapped, "json: unsupported type")))
    ELSE IF c.url = BadURL
    THEN LET e == newError(ErrRequestError, PlainWrapped, "problem constructing request")
             er == IF c.debug THEN withRequest(e, NilRequest, query) ELSE Returned(e)
         IN IF er.panic THEN Prepared("panic", NilRequest, <<>>, <<>>)
            ELSE Prepared("failed", NilRequest, <<>>, Errors1(er.e))
    ELSE LET req == [isNil |-> FALSE, header |-> {"Content-Type"}, body |-> query]
             m == applyModifier(c, req, <<>>)
         IN Prepared("ready", m.request, m.events, <<>>)

(***************************************************************************)
(* Client.request, lines 204-296: everything after Doer.Do returned.       *)
(***************************************************************************)
Nil == "nil"

\* A *bytes.Reader over the copied response body (nil unless debug).
NilReader == [isNil |-> TRUE, text |-> Text(Body(FALSE, Malformed), "none")]
Reader(text) == [isNil |-> FALSE, text |-> text]
\* io.ReadAll on a reader that was already read to its end yields nothing.
Drained(rd) == [rd EXCEPT !.text.part = "none"]

Result(panic, data, extensions, resp, respBuf, errs) ==
    [panic |-> panic, data |-> data, extensions |-> extensions,
     resp |-> resp, respBuf |-> respBuf, errs |-> errs]
Failure(errs) == Result(FALSE, Nil, Nil, NilResponse, NilReader, errs)
Panic == Result(TRUE, Nil, Nil, NilResponse, NilReader, <<>>)

\* json.NewDecoder(r).Decode(&out) succeeds when r yields a whole, uncompressed envelope.
Decodes(text) ==
    text.part = "all" /\ ~text.body.gz /\ text.body.doc.kind = "envelope"

\* Mutant: the raw bytes are never handed on.
RawMessageDropped(kind) == Nil

\* A *json.RawMessage field stays nil for an absent key and for JSON null.
RawMessage(kind) == IF kind \in {"absent", "null"} THEN Nil ELSE kind

\* Enrichment of a server error (lines 286-290).
\* Mutant: the debug flag is not consulted.
NeedsCaptureAlways(c, e) ==
    e.extensions.isNil \/ e.extensions.request = ""

NeedsCapture(c, e) ==
    c.debug /\ (e.extensions.isNil \/ e.extensions.request = "")

\* Mutant: the whole 2xx range is let through.
StatusFailsOutside2xx(status) == status < 200 \/ status >= 300

\* The status check of line 230.
StatusFails(status) == status # StatusOK

requestReceive(c, req, dr) ==
    IF dr.err
    THEN LET e == newError(ErrRequestError, PlainWrapped, "transport failure")
             er == IF c.debug THEN withRequest(e, req, req.body) ELSE Returned(e)
         IN IF er.panic THEN Panic ELSE Failure(Errors1(er.e))
    ELSE
    LET resp == dr.resp
        gzipped == resp.contentEncoding = "gzip"
        \* gzip.NewReader reads the head of resp.Body
        bodyPart == IF resp.body.doc.kind = "readerr" THEN "none"
                    ELSE IF gzipped THEN "tail" ELSE "all"
        rest == Text(resp.body, bodyPart)
    IN
    IF gzipped /\ ~resp.body.gz
    THEN Failure(Errors1(newError(ErrJsonDecode, PlainWrapped,
                                  "problem trying to create gzip reader")))
    ELSE IF StatusFails(resp.status)
    THEN LET e == newError(ErrRequestError, NetworkError(resp.status, rest), "status")
             er == IF c.debug THEN withRequest(e, req, req.body) ELSE Returned(e)
         IN IF er.panic THEN Panic ELSE Failure(Errors1(er.e))
    ELSE IF c.debug /\ resp.body.doc.kind = "readerr"
    THEN Failure(Errors1(newError(ErrJsonDecode, PlainWrapped, "read failure")))
    ELSE
    LET \* debug decodes what is left of resp.Body; otherwise r is the gzip
        \* reader when the header said gzip, else resp.Body itself
        r == IF c.debug THEN rest
             ELSE IF gzipped THEN Text(Body(FALSE, resp.body.doc), "all")
             ELSE rest
        respReader == IF c.debug THEN Reader(rest) ELSE NilReader
        hdr == Header(resp.contentEncoding)
    IN
    IF ~Decodes(r)
    THEN LET we == newError(ErrJsonDecode, PlainWrapped, "invalid character")
             w1 == IF c.debug THEN withRequest(we, req, req.body) ELSE Returned(we)
             w2 == IF c.debug /\ ~w1.panic THEN withResponse(w1.e, hdr, rest) ELSE w1
         IN IF w2.panic THEN Panic ELSE Failure(Errors1(w2.e))
    ELSE
    LET out == resp.body.doc
        rawData == RawMessage(out.data)
        extensions == RawMessage(out.extensions)
    IN
    IF Len(out.errors) > 0
    THEN IF NeedsCapture(c, out.errors[1])
         THEN LET w1 == withRequest(out.errors[1], req, req.body)
                  w2 == IF w1.panic THEN w1 ELSE withResponse(w1.e, hdr, rest)
              IN IF w2.panic THEN Panic
                 ELSE Result(FALSE, rawData, extensions, resp, Drained(respReader),
                             [out.errors EXCEPT ![1] = w2.e])
         ELSE Result(FALSE, rawData, extensions, resp, respReader, out.errors)
    ELSE Result(FALSE, rawData, extensions, resp, respReader, <<>>)

(***************************************************************************)
(* Client.processResponse and the tails of do / Exec / doRaw / ExecRaw.    *)
(* An error return is nil or a non-nil Errors value.                       *)
(***************************************************************************)
NilError == [isNil |-> TRUE, errs |-> <<>>]
ErrorsValue(errs) == [isNil |-> FALSE, errs |-> errs]

Untouched == "untouched"

\* jsonutil.UnmarshalGraphQL(data, v): v after the call.
UnmarshalGraphQL(data) == IF data = "fits" THEN "populated" ELSE "partial"

Outcome(panic, out, ext, data, err) ==
    [panic |-> panic, output |-> out, extOut |-> ext, data |-> data, err |-> err]

\* Mutant: a failure to unmarshal data is not reported.
processResponseDropsDecodeError(c, v, data, bound, rawExtensions, resp, respBuf, errs) ==
    LET decodeFails == data # Nil /\ data # "fits"
        we == newError(ErrGraphQLDecode, PlainWrapped, "unmarshal data")
        w == IF decodeFails /\ c.debug
             THEN withResponse(we, Header(resp.contentEncoding), respBuf.text)
             ELSE Returned(we)
        errs1 == errs
        v1 == IF data # Nil THEN UnmarshalGraphQL(data) ELSE v
        extDecoded == rawExtensions # Nil /\ bound
        extFails == extDecoded /\ rawExtensions # "fits"
        errs2 == IF extFails
                 THEN Append(errs1, newError(ErrGraphQLExtensionsDecode, PlainWrapped,
                                             "unmarshal extensions"))
                 ELSE errs1
        ext1 == IF extDecoded
                THEN (IF extFails THEN "partial" ELSE "populated")
                ELSE Untouched
    IN IF w.panic THEN Outcome(TRUE, v1, Untouched, Nil, NilError)
       ELSE Outcome(FALSE, v1, ext1, Nil,
                    IF Len(errs2) > 0 THEN ErrorsValue(errs2) ELSE NilError)

\* Mutant: errs is returned without looking at its length.
processResponseReturnsErrs(c, v, data, bound, rawExtensions, resp, respBuf, errs) ==
    LET decodeFails == data # Nil /\ data # "fits"
        we == newError(ErrGraphQLDecode, PlainWrapped, "unmarshal data")
        w == IF decodeFails /\ c.debug
             THEN withResponse(we, Header(resp.contentEncoding), respBuf.text)
             ELSE Returned(we)
        errs1 == IF decodeFails THEN Append(errs, w.e) ELSE errs
        v1 == IF data # Nil THEN UnmarshalGraphQL(data) ELSE v
        extDecoded == rawExtensions # Nil /\ bound
        extFails == extDecoded /\ rawExtensions # "fits"
        errs2 == IF extFails
                 THEN Append(errs1, newError(ErrGraphQLExtensionsDecode, PlainWrapped,
                                             "unmarshal extensions"))
                 ELSE errs1
        ext1 == IF extDecoded
                THEN (IF extFails THEN "partial" ELSE "populated")
                ELSE Untouched
    IN IF w.panic THEN Outcome(TRUE, v1, Untouched, Nil, NilError)
       ELSE Outcome(FALSE, v1, ext1, Nil,
                    ErrorsValue(errs2))

\* Mutant: the decode error replaces the errors collected so far.
processResponseReplacesErrs(c, v, data, bound, rawExtensions, resp, respBuf, errs) ==
    LET decodeFails == data # Nil /\ data # "fits"
        we == newError(ErrGraphQLDecode, PlainWrapped, "unmarshal data")
        w == IF decodeFails /\ c.debug
             THEN withResponse(we, Header(resp.contentEncoding), respBuf.text)
             ELSE Returned(we)
        errs1 == IF decodeFails THEN <<w.e>> ELSE errs
        v1 == IF data # Nil THEN UnmarshalGraphQL(data) ELSE v
        extDecoded == rawExtensions # Nil /\ bound
        extFails == extDecoded /\ rawExtensions # "fits"
        errs2 == IF extFails
                 THEN Append(errs1, newError(ErrGraphQLExtensionsDecode, PlainWrapped,
                                             "unmarshal extensions"))
                 ELSE errs1
        ext1 == IF extDecoded
                THEN (IF extFails THEN "partial" ELSE "populated")
                ELSE Untouched
    IN IF w.panic THEN Outcome(TRUE, v1, Untouched, Nil, NilError)
       ELSE Outcome(FALSE, v1, ext1, Nil,
                    IF Len(errs2) > 0 THEN ErrorsValue(errs2) ELSE NilError)

processResponse(c, v, data, bound, rawExtensions, resp, respBuf, errs) ==
    LET decodeFails == data # Nil /\ data # "fits"
        we == newError(ErrGraphQLDecode, PlainWrapped, "unmarshal data")
        w == IF decodeFails /\ c.debug
             THEN withResponse(we, Header(resp.contentEncoding), respBuf.text)
             ELSE Returned(we)
        errs1 == IF decodeFails THEN Append(errs, w.e) ELSE errs
        v1 == IF data # Nil THEN UnmarshalGraphQL(data) ELSE v
        extDecoded == rawExtensions # Nil /\ bound
        extFails == extDecoded /\ rawExtensions # "fits"
        errs2 == IF extFails
                 THEN Append(errs1, newError(ErrGraphQLExtensionsDecode, PlainWrapped,
                                             "unmarshal extensions"))
                 ELSE errs1
        ext1 == IF extDecoded
                THEN (IF extFails THEN "partial" ELSE "populated")
                ELSE Untouched
    IN IF w.panic THEN Outcome(TRUE, v1, Untouched, Nil, NilError)
       ELSE Outcome(FALSE, v1, ext1, Nil,
                    IF Len(errs2) > 0 THEN ErrorsValue(errs2) ELSE NilError)

\* doRaw / ExecRaw after request returned (lines 305-310, 344-348).
rawReturn(res) ==
    Outcome(FALSE, Untouched, Untouched, res.data,
            IF Len(res.errs) > 0 THEN ErrorsValue(res.errs) ELSE NilError)

RawKinds == {"MutateRaw", "ExecRaw"}
TypedKinds == {"Query", "Mutate", "Exec"}
Kinds == TypedKinds \cup RawKinds

\* What the caller gets once request has returned res.
finish(c, kind, bound, res) ==
    IF res.panic THEN Outcome(TRUE, Untouched, Untouched, Nil, NilError)
    ELSE IF kind \in RawKinds THEN rawReturn(res)
    ELSE processResponse(c, Untouched, res.data, bound, res.extensions,
                         res.resp, res.respBuf, res.errs)

(***************************************************************************)
(* main.go.  A Go string is the sequence of its pieces, so that            *)
(* fmt.Sprintf is concatenation and "" is the empty sequence.              *)
(***************************************************************************)
Empty == <<>>
S(piece) == <<piece>>

authURL == S("https://auth.trynova.ai/realms/default/protocol/openid-connect/token")
registryURL == S("registry.trynova.ai")
apiURL == GoodURL

NoErr == "nil"

\* One call a step makes on the outside world: an HTTP request, a file
\* written, a command run or the mutation sent.
Effect(op, target, arg, version) ==
    [op |-> op, target |-> target, arg |-> arg, version |-> version]

StepResult(eff, err) == [effects |-> eff, err |-> err]

\* Lines 39-83 fail in nine places; every one returns "", "", err.
getBearerToken(clientId, secret, authOK) ==
    [effects |-> <<Effect("POST", authURL, clientId, secret)>>,
     token |-> IF authOK THEN S("header.claims.signature") ELSE Empty,
     org |-> IF authOK THEN S("org-1") ELSE Empty,
     err |-> IF authOK THEN NoErr ELSE "failed to get token"]

ConfigOutcomes == {"ok", "UserHomeDir", "MkdirAll", "WriteFile"}

updateDockerConfig(token, outcome) ==
    LET configContent == S("X-Meta-Authorization: Bearer ") \o token
        mkdir == Effect("os.MkdirAll", S("~/.docker"), Empty, Empty)
        write == Effect("os.WriteFile", S("~/.docker/config.json"), configContent, Empty)
    IN IF outcome = "UserHomeDir" THEN StepResult(<<>>, outcome)
       ELSE IF outcome = "MkdirAll" THEN StepResult(<<mkdir>>, outcome)
       ELSE IF outcome = "WriteFile" THEN StepResult(<<mkdir, write>>, outcome)
       ELSE StepResult(<<mkdir, write>>, NoErr)

DotDockerfile == S("./Dockerfile")
ErrNoDockerfile == "either dockerfilePath or dockerfile must be set"

\* Mutant: a given path wins over inline content.
runDockerBuildPrefersPath(dockerfilePath, dockerfile, imageName, imageTag, writeOK, runOK) ==
    LET fullImageName == registryURL \o S("/") \o imageName \o S(":") \o imageTag
        inline == dockerfile # Empty /\ dockerfilePath = Empty
        path == IF inline THEN DotDockerfile ELSE dockerfilePath
        write == IF inline
                 THEN <<Effect("os.WriteFile", DotDockerfile, dockerfile, Empty)>>
                 ELSE <<>>
        build == Effect("docker build", fullImageName, path, Empty)
    IN IF inline /\ ~writeOK THEN StepResult(write, "WriteFile")
       ELSE IF path = Empty THEN StepResult(write, ErrNoDockerfile)
       ELSE StepResult(Append(write, build), IF runOK THEN NoErr ELSE "docker build")

runDockerBuild(dockerfilePath, dockerfile, imageName, imageTag, writeOK, runOK) ==
    LET fullImageName == registryURL \o S("/") \o imageName \o S(":") \o imageTag
        path == IF dockerfile # Empty THEN DotDockerfile ELSE dockerfilePath
        write == IF dockerfile # Empty
                 THEN <<Effect("os.WriteFile", DotDockerfile, dockerfile, Empty)>>
                 ELSE <<>>
        build == Effect("docker build", fullImageName, path, Empty)
    IN IF dockerfile # Empty /\ ~writeOK THEN StepResult(write, "WriteFile")
       ELSE IF path = Empty THEN StepResult(write, ErrNoDockerfile)
       ELSE StepResult(Append(write, build), IF runOK THEN NoErr ELSE "docker build")

\* Mutant: the reference is formatted without the registry.
runDockerPushBare(imageName, imageTag, runOK) ==
    LET fullImageName == imageName \o S(":") \o imageTag
    IN StepResult(<<Effect("docker push", fullImageName, Empty, Empty)>>,
                  IF runOK THEN NoErr ELSE "docker push")

runDockerPush(imageName, imageTag, runOK) ==
    LET fullImageName == registryURL \o S("/") \o imageName \o S(":") \o imageTag
    IN StepResult(<<Effect("docker push", fullImageName, Empty, Empty)>>,
                  IF runOK THEN NoErr ELSE "docker push")

parseLocation(imageName, imageTag) ==
    registryURL \o S("/") \o imageName \o S(":") \o imageTag

setOutput(name, value, runOK) ==
    StepResult(<<Effect("set-output", name, value, Empty)>>,
               IF runOK THEN NoErr ELSE "sh")

\* addArtifact: a fresh client on apiURL, one Mutate carrying the
\* AddArtifactInput, and the mutation's error wrapped.
addArtifact(token, organization, artifactId, version, url, dr) ==
    LET c == NewClient(apiURL, DefaultTransport)
        query == CHOOSE q \in Queries : TRUE
        prep == requestPrepare(c, query, TRUE)
        o == finish(c, "Mutate", FALSE,
                    IF prep.stage = "ready" THEN requestReceive(c, prep.request, dr)
                    ELSE IF prep.stage = "panic" THEN Panic ELSE Failure(prep.errs))
    IN [effects |-> <<Effect("Mutate", url, artifactId, version)>>,
        panic |-> o.panic,
        err |-> IF o.err.isNil THEN NoErr ELSE "failed to add artifact"]

NoLocals == [clientId |-> Empty, secret |-> Empty, imageName |-> Empty,
             imageTag |-> Empty, artifactId |-> Empty, dockerfilePath |-> Empty,
             dockerfile |-> Empty, token |-> Empty, org |-> Empty, location |-> Empty]
NoArgs == <<>>

\* main has not been started.
IdleMain ==
    /\ osArgs = NoArgs
    /\ mainPc = "off"
    /\ locals = NoLocals
    /\ steps = <<>>
    /\ effects = <<>>
    /\ fatal = ""

(***************************************************************************)
(* Logical calls running side by side.  Each has the locals of its own     *)
(* activation of request / processResponse.                                *)
(***************************************************************************)
Callers == {"a", "b"}

NoCall == [kind |-> "none", query |-> "", buildOK |-> TRUE, encodeOK |-> TRUE, bound |-> FALSE]
NoDoResult == [err |-> FALSE, resp |-> NilResponse]

NoOutcome == Outcome(FALSE, Untouched, Untouched, Nil, NilError)

IdleCaller == [pc |-> "idle", client |-> 0, in |-> NoCall, httpRequest |-> NilRequest,
               doResult |-> NoDoResult, out |-> NoOutcome]

IdleCalls == calls = [p \in Callers |-> IdleCaller]

(***************************************************************************)
(* do / doRaw / Exec / ExecRaw up to the transport call.                   *)
(***************************************************************************)

\* buildQueryAndOptions wraps a constructQuery / constructMutation failure.
buildQueryAndOptions(buildOK) ==
    IF buildOK THEN <<>>
    ELSE Errors1(newError(ErrGraphQLEncode, PlainWrapped, "construct query"))

\* constructOptions of Exec / ExecRaw: its error is returned as it is.
constructOptions(buildOK) ==
    IF buildOK THEN <<>>
    ELSE Errors1(newError(ErrGraphQLEncode, PlainWrapped, "invalid query option type"))

CallInputs ==
    { [kind |-> k, query |-> q, buildOK |-> b, encodeOK |-> e, bound |-> x] :
        k \in Kinds, q \in Queries, b \in BOOLEAN, e \in BOOLEAN, x \in BOOLEAN }

\* Mutant: a call that got an error from its first round trip goes back to the transport.
LandRetries(o) ==
    /\ pc' = IF o.panic THEN "panic"
             ELSE IF ~o.err.isNil /\ pc = "sent"
                     /\ \A i \in DOMAIN events : events[i] # "do"
                  THEN "sent" ELSE "done"
    /\ output' = o.output
    /\ extOut' = o.extOut
    /\ retData' = o.data
    /\ retErr' = o.err

Land(o) ==
    /\ pc' = IF o.panic THEN "panic" ELSE "done"
    /\ output' = o.output
    /\ extOut' = o.extOut
    /\ retData' = o.data
    /\ retErr' = o.err

Call(in) ==
    /\ pc = "idle"
    /\ in.kind \in RawKinds => ~in.bound
    /\ call' = in
    /\ doResult' = NoDoResult
    /\ UNCHANGED <<clients, origin, calls, mainVars>>
    /\ LET c == clients[1]
           berr == IF in.kind \in {"Exec", "ExecRaw"}
                   THEN constructOptions(in.buildOK)
                   ELSE buildQueryAndOptions(in.buildOK)
           prep == requestPrepare(c, in.query, in.encodeOK)
       IN IF Len(berr) > 0
          THEN /\ Land(Outcome(FALSE, Untouched, Untouched, Nil, ErrorsValue(berr)))
               /\ httpRequest' = NilRequest
               /\ events' = <<>>
          ELSE /\ httpRequest' = prep.request
               /\ events' = prep.events
               /\ IF prep.stage = "ready"
                  THEN /\ pc' = "sent"
                       /\ UNCHANGED <<output, extOut, retData, retErr>>
                  ELSE Land(finish(c, in.kind, in.bound,
                                   IF prep.stage = "panic" THEN Panic ELSE Failure(prep.errs)))

(***************************************************************************)
(* The transport answers and the call runs to its return.                  *)
(***************************************************************************)
Do(dr) ==
    /\ pc = "sent"
    /\ doResult' = dr
    /\ events' = Append(events, "do")
    /\ Land(finish(clients[1], call.kind, call.bound,
                   requestReceive(clients[1], httpRequest, dr)))
    /\ UNCHANGED <<clients, origin, call, httpRequest, calls, mainVars>>

\* The caller has looked at the results and is ready for its next call.
Return ==
    /\ pc = "done"
    /\ pc' = "idle"
    /\ call' = NoCall
    /\ httpRequest' = NilRequest
    /\ events' = <<>>
    /\ doResult' = NoDoResult
    /\ output' = Untouched
    /\ extOut' = Untouched
    /\ retData' = Nil
    /\ retErr' = NilError
    /\ UNCHANGED <<clients, origin, calls, mainVars>>

IdleCall ==
    /\ pc = "idle"
    /\ call = NoCall
    /\ httpRequest = NilRequest
    /\ events = <<>>
    /\ doResult = NoDoResult
    /\ output = Untouched
    /\ extOut = Untouched
    /\ retData = Nil
    /\ retErr = NilError

Made(receiver, op, debug, f) == [receiver |-> receiver, op |-> op, debug |-> debug, f |-> f]

\* The client the calls run on is any value NewClient and the derivations produce.
Init ==
    /\ clients \in { <<c>> : c \in Client }
    /\ origin = <<Made(0, "NewClient", FALSE, NoModifier)>>
    /\ IdleCall
    /\ IdleCalls
    /\ IdleMain

Next ==
    \/ pc = "idle" /\ \E in \in CallInputs : Call(in)
    \/ pc = "sent" /\ \E dr \in DoResults : Do(dr)
    \/ Return

Spec == Init /\ [][Next]_vars

(***************************************************************************)
(* Derivation of clients from a base client.                               *)
(***************************************************************************)
DeriveDebug(c, debug) ==
    /\ Len(clients) < MaxClients
    /\ clients' = WithDebug(clients, c, debug)
    /\ origin' = Append(origin, Made(c, "WithDebug", debug, NoModifier))
    /\ UNCHANGED <<callVars, calls, mainVars>>

DeriveModifier(c, f) ==
    /\ Len(clients) < MaxClients
    /\ clients' = WithRequestModifier(clients, c, f)
    /\ origin' = Append(origin, Made(c, "WithRequestModifier", FALSE, f))
    /\ UNCHANGED <<callVars, calls, mainVars>>

InitDerive ==
    /\ clients \in { <<NewClient(url, DefaultTransport)>> : url \in URLs }
    /\ origin = <<Made(0, "NewClient", FALSE, NoModifier)>>
    /\ IdleCall
    /\ IdleCalls
    /\ IdleMain

NextDerive ==
    \/ \E c \in DOMAIN clients, debug \in BOOLEAN : DeriveDebug(c, debug)
    \/ \E c \in DOMAIN clients, f \in Modifiers \cup {NoModifier} : DeriveModifier(c, f)

SpecDerive == InitDerive /\ [][NextDerive]_vars

(***************************************************************************)
(* Two logical calls run concurrently on the clients allocated so far,     *)
(* while further clients are derived.  A call takes three steps: up to the *)
(* transport call, from the transport's answer to the return, and the      *)
(* caller picking up the results.  A panic ends the process.               *)
(***************************************************************************)
ConcQueries == Queries \cup {"{viewer{id}}"}
ConcKinds == {"Query", "MutateRaw"}
ConcInputs ==
    { [kind |-> k, query |-> q, buildOK |-> TRUE, encodeOK |-> TRUE, bound |-> FALSE] :
        k \in ConcKinds, q \in ConcQueries }

ErrorEnvelope ==
    [kind |-> "envelope", data |-> "null", extensions |-> "absent",
     errors |-> <<[message |-> "not found", extensions |-> NilExtensions, err |-> NoWrapped]>>]

ConcDoResults ==
    { DoReturned(Response(StatusOK, "", Body(FALSE, SampleEnvelope))),
      DoReturned(Response(StatusOK, "", Body(FALSE, ErrorEnvelope))) }

Alive == \A p \in Callers : calls[p].pc # "panic"

\* Mutant: the request under construction lives in one package-level
\* variable, which every call in flight sees.
StoreShared(cs, p, rec) ==
    [q \in Callers |->
        IF q = p THEN rec
        ELSE IF cs[q].pc = "sent" /\ rec.pc = "sent"
        THEN [cs[q] EXCEPT !.httpRequest = rec.httpRequest]
        ELSE cs[q]]

\* buf, reqReader, request, resp, respBuf, out and the returned Errors are
\* locals of the activation of request that made them.
Store(cs, p, rec) == [cs EXCEPT ![p] = rec]

Landed(rec, o) ==
    [rec EXCEPT !.pc = IF o.panic THEN "panic" ELSE "done", !.out = o]

ConcCall(p, c, in) ==
    /\ Alive
    /\ calls[p].pc = "idle"
    /\ LET cl == clients[c]
           prep == requestPrepare(cl, in.query, in.encodeOK)
           berr == buildQueryAndOptions(in.buildOK)
           rec == [IdleCaller EXCEPT !.client = c, !.in = in, !.httpRequest = prep.request]
       IN calls' = Store(calls, p,
             IF Len(berr) > 0
             THEN Landed([rec EXCEPT !.httpRequest = NilRequest],
                         Outcome(FALSE, Untouched, Untouched, Nil, ErrorsValue(berr)))
             ELSE IF prep.stage = "ready" THEN [rec EXCEPT !.pc = "sent"]
             ELSE Landed(rec, finish(cl, in.kind, in.bound,
                              IF prep.stage = "panic" THEN Panic ELSE Failure(prep.errs))))
    /\ UNCHANGED <<clients, origin, callVars, mainVars>>

ConcDo(p, dr) ==
    /\ Alive
    /\ calls[p].pc = "sent"
    /\ LET rec == calls[p]
           cl == clients[rec.client]
       IN calls' = Store(calls, p,
             Landed([rec EXCEPT !.doResult = dr],
                    finish(cl, rec.in.kind, rec.in.bound,
                           requestReceive(cl, rec.httpRequest, dr))))
    /\ UNCHANGED <<clients, origin, callVars, mainVars>>

ConcReturn(p) ==
    /\ Alive
    /\ calls[p].pc = "done"
    /\ calls' = Store(calls, p, IdleCaller)
    /\ UNCHANGED <<clients, origin, callVars, mainVars>>

ConcDeriveDebug(c, debug) ==
    /\ Alive
    /\ Len(clients) < MaxShared
    /\ DeriveDebug(c, debug)

ConcDeriveModifier(c, f) ==
    /\ Alive
    /\ Len(clients) < MaxShared
    /\ DeriveModifier(c, f)

NextConc ==
    \/ \E p \in Callers :
          calls[p].pc = "idle" /\ \E c \in DOMAIN clients, in \in ConcInputs : ConcCall(p, c, in)
    \/ \E p \in Callers : calls[p].pc = "sent" /\ \E dr \in ConcDoResults : ConcDo(p, dr)
    \/ \E p \in Callers : ConcReturn(p)
    \/ \E c \in DOMAIN clients, debug \in BOOLEAN : ConcDeriveDebug(c, debug)
    \/ \E c \in DOMAIN clients, f \in Modifiers : ConcDeriveModifier(c, f)

SpecConc == InitDerive /\ [][NextConc]_vars

(***************************************************************************)
(* main, lines 231-240: the argument count check and the reading of        *)
(* os.Args.  os.Args[0] is the program; indexes are zero-based.            *)
(***************************************************************************)
ArgValues == {Empty, S("x")}

InRange(a, i) == i < Len(a)
At(a, i) == a[i + 1]

Main ==
    /\ mainPc = "start"
    /\ IF Len(osArgs) # UsageLen
       THEN /\ mainPc' = "fatal"
            /\ fatal' = "Usage"
            /\ locals' = locals
       ELSE IF \E i \in 1..LastArg : ~InRange(osArgs, i)
       THEN /\ mainPc' = "panic"
            /\ fatal' = fatal
            /\ locals' = locals
       ELSE /\ mainPc' = "getBearerToken"
            /\ fatal' = fatal
            /\ locals' = [NoLocals EXCEPT !.clientId = At(osArgs, 1),
                                          !.secret = At(osArgs, 2),
                                          !.imageName = At(osArgs, 3),
                                          !.imageTag = At(osArgs, 4),
                                          !.artifactId = At(osArgs, 5),
                                          !.dockerfilePath = At(osArgs, 6),
                                          !.dockerfile = At(osArgs, 7)]
    /\ UNCHANGED <<clients, origin, callVars, calls, osArgs, steps, effects>>

\* The process is started with any number of arguments.
InitMain ==
    /\ clients = <<NewClient(GoodURL, DefaultTransport)>>
    /\ origin = <<Made(0, "NewClient", FALSE, NoModifier)>>
    /\ IdleCall
    /\ IdleCalls
    /\ osArgs \in { <<S("/action")>> \o a : a \in SeqsUpTo(ArgValues, MaxArgs) }
    /\ mainPc = "start"
    /\ locals = NoLocals
    /\ steps = <<>>
    /\ effects = <<>>
    /\ fatal = ""

NextMain == Main

SpecMain == InitMain /\ [][NextMain]_vars

(***************************************************************************)
(* main, lines 242-273: the six steps, each followed by                    *)
(* "if err != nil { log.Fatalf(...) }".                                    *)
(***************************************************************************)
\* Mutant: the error is logged and main goes on.
FatalfGoesOn(r, name, message, next) ==
    /\ steps' = Append(steps, [name |-> name, err |-> r.err])
    /\ effects' = effects \o r.effects
    /\ mainPc' = next
    /\ fatal' = fatal

Fatalf(r, name, message, next) ==
    /\ steps' = Append(steps, [name |-> name, err |-> r.err])
    /\ effects' = effects \o r.effects
    /\ IF r.err # NoErr
       THEN mainPc' = "fatal" /\ fatal' = message
       ELSE mainPc' = next /\ fatal' = fatal

frame == <<clients, origin, callVars, calls, osArgs>>

GetBearerToken(authOK) ==
    /\ mainPc = "getBearerToken"
    /\ LET r == getBearerToken(locals.clientId, locals.secret, authOK)
       IN /\ locals' = [locals EXCEPT !.token = r.token, !.org = r.org]
          /\ Fatalf(r, "getBearerToken", "Failed to get bearer token", "updateDockerConfig")
    /\ UNCHANGED frame

UpdateDockerConfig(outcome) ==
    /\ mainPc = "updateDockerConfig"
    /\ Fatalf(updateDockerConfig(locals.token, outcome),
              "updateDockerConfig", "Failed to update Docker config", "runDockerBuild")
    /\ UNCHANGED <<frame, locals>>

RunDockerBuild(writeOK, runOK) ==
    /\ mainPc = "runDockerBuild"
    /\ Fatalf(runDockerBuild(locals.dockerfilePath, locals.dockerfile,
                             locals.imageName, locals.imageTag, writeOK, runOK),
              "runDockerBuild", "Failed to build Docker image", "runDockerPush")
    /\ UNCHANGED <<frame, locals>>

RunDockerPush(runOK) ==
    /\ mainPc = "runDockerPush"
    /\ Fatalf(runDockerPush(locals.imageName, locals.imageTag, runOK),
              "runDockerPush", "Failed to push Docker image", "setOutput")
    /\ UNCHANGED <<frame, locals>>

SetOutput(runOK) ==
    /\ mainPc = "setOutput"
    /\ LET location == parseLocation(locals.imageName, locals.imageTag)
       IN /\ locals' = [locals EXCEPT !.location = location]
          /\ Fatalf(setOutput(S("location"), location, runOK),
                    "setOutput", "Failed to set output", "addArtifact")
    /\ UNCHANGED frame

AddArtifact(dr) ==
    /\ mainPc = "addArtifact"
    /\ LET r == addArtifact(locals.token, locals.org, locals.artifactId,
                            locals.imageTag, locals.location, dr)
       IN IF r.panic
          THEN /\ mainPc' = "panic"
               /\ steps' = steps
               /\ effects' = effects \o r.effects
               /\ fatal' = fatal
          ELSE Fatalf(r, "addArtifact", "Failed to add artifact", "completed")
    /\ UNCHANGED <<frame, locals>>

ImageNames == {S("app"), S("team") \o S("/") \o S("app")}
ImageTags == {S("v1"), S("latest")}
DockerfilePaths == {Empty, S("build/Dockerfile")}
Dockerfiles == {Empty, S("FROM scratch")}

\* Line 242 with any seven values in main's locals.
InitSteps ==
    /\ clients = <<NewClient(GoodURL, DefaultTransport)>>
    /\ origin = <<Made(0, "NewClient", FALSE, NoModifier)>>
    /\ IdleCall
    /\ IdleCalls
    /\ osArgs = NoArgs
    /\ mainPc = "getBearerToken"
    /\ locals \in { [NoLocals EXCEPT !.clientId = S("client"), !.secret = S("secret"),
                                      !.imageName = n, !.imageTag = t,
                                      !.artifactId = S("artifact-1"),
                                      !.dockerfilePath = p, !.dockerfile = d] :
                       n \in ImageNames, t \in ImageTags,
                       p \in DockerfilePaths, d \in Dockerfiles }
    /\ steps = <<>>
    /\ effects = <<>>
    /\ fatal = ""

NextSteps ==
    \/ mainPc = "getBearerToken" /\ \E authOK \in BOOLEAN : GetBearerToken(authOK)
    \/ mainPc = "updateDockerConfig" /\ \E o \in ConfigOutcomes : UpdateDockerConfig(o)
    \/ mainPc = "runDockerBuild" /\ \E w, r \in BOOLEAN : RunDockerBuild(w, r)
    \/ mainPc = "runDockerPush" /\ \E r \in BOOLEAN : RunDockerPush(r)
    \/ mainPc = "setOutput" /\ \E r \in BOOLEAN : SetOutput(r)
    \/ mainPc = "addArtifact" /\ \E dr \in DoResults : AddArtifact(dr)

SpecSteps == InitSteps /\ [][NextSteps]_vars

(***************************************************************************)
(* Vocabulary of the properties                                            *)
(***************************************************************************)
client == clients[1]
resp == doResult.resp
envelope == resp.body.doc
Count(ev, x) == Cardinality({ i \in DOMAIN ev : ev[i] = x })
Dispatched == Count(events, "do") > 0
\* Doer.Do returned a response (not a failure) and the call is over.
Answered == pc \in {"done", "panic"} /\ Dispatched /\ ~doResult.err
Is2xx(status) == status >= 200 /\ status < 300
\* The body is encoded as the Content-Encoding header says.
WellEncoded(r) == (r.contentEncoding = "gzip") <=> r.body.gz
Compress(r) == [r EXCEPT !.contentEncoding = "gzip", !.body.gz = TRUE]
HasData(doc) == doc.kind = "envelope" /\ doc.data \in {"fits", "misfits"}
HasCapture(e) ==
    e.extensions.internal.request.present \/ e.extensions.internal.response.present
\* An error without what debug capture may have added to it.
Bare(e) == [message |-> e.message, code |-> e.extensions.code, err |-> e.err]
BareAll(errs) == [ i \in DOMAIN errs |-> Bare(errs[i]) ]

(***************************************************************************)
(* C1: a 200 response whose envelope has both data and errors gives the    *)
(* caller the data (the output is decoded from it, a raw variant returns   *)
(* its bytes) together with a non-empty Errors holding the envelope's      *)
(* errors.                                                                 *)
(***************************************************************************)
C1_PartialSuccess ==
    ( /\ Answered
      /\ resp.status = StatusOK
      /\ WellEncoded(resp)
      /\ HasData(envelope)
      /\ Len(envelope.errors) > 0 )
    => /\ pc = "done"
       /\ IF call.kind \in RawKinds THEN retData = envelope.data
                                   ELSE output # Untouched
       /\ ~retErr.isNil
       /\ Len(retErr.errs) >= Len(envelope.errors)
       /\ \A i \in DOMAIN envelope.errors : Bare(retErr.errs[i]) = Bare(envelope.errors[i])

(***************************************************************************)
(* C2: every completed Query / Mutate / Exec has populated the output or   *)
(* returns a non-empty error collection.                                   *)
(***************************************************************************)
C2_PopulatedOrError ==
    (pc = "done" /\ call.kind \in TypedKinds)
    => (output = "populated" \/ (~retErr.isNil /\ Len(retErr.errs) > 0))

\* C2 as amended: the third outcome, a nil error with the output untouched,
\* happens exactly for a 200 envelope that has neither data nor errors.
C2_PopulatedOrErrorOrEmptyEnvelope ==
    (pc = "done" /\ call.kind \in TypedKinds)
    => \/ output = "populated"
       \/ ~retErr.isNil /\ Len(retErr.errs) > 0
       \/ /\ retErr.isNil /\ output = Untouched
          /\ Answered /\ resp.status = StatusOK
          /\ envelope.kind = "envelope"
          /\ envelope.data \in {"absent", "null"}
          /\ envelope.errors = <<>>

C2_Witness ==
    /\ pc = "done" /\ call.kind \in TypedKinds
    /\ retErr.isNil /\ output = Untouched
    /\ Answered /\ envelope.kind = "envelope" /\ envelope.data = "null"

(***************************************************************************)
(* C3: a non-2xx response gives exactly one request_error wrapping a       *)
(* NetworkError with the response's status and its raw body; the output    *)
(* is untouched.                                                           *)
(***************************************************************************)
C3_NonOKIsNetworkError ==
    (Answered /\ ~Is2xx(resp.status))
    => /\ pc = "done"
       /\ ~retErr.isNil
       /\ Len(retErr.errs) = 1
       /\ retErr.errs[1].extensions.code = ErrRequestError
       /\ retErr.errs[1].err = NetworkError(resp.status, Text(resp.body, "all"))
       /\ output = Untouched

(***************************************************************************)
(* C4: a 200 response carrying the envelope gzip-compressed with the       *)
(* Content-Encoding header gives the same data, output, extensions and     *)
(* errors as the response carrying it uncompressed, debug on or off.       *)
(***************************************************************************)
C4_CompressionTransparent ==
    ( /\ pc = "done" /\ Answered
      /\ resp.status = StatusOK
      /\ resp.contentEncoding = "" /\ ~resp.body.gz
      /\ envelope.kind = "envelope" )
    => LET z == finish(client, call.kind, call.bound,
                       requestReceive(client, httpRequest, DoReturned(Compress(resp))))
       IN /\ ~z.panic
          /\ z.output = output
          /\ z.extOut = extOut
          /\ z.data = retData
          /\ z.err.isNil = retErr.isNil
          /\ BareAll(z.err.errs) = BareAll(retErr.errs)

(***************************************************************************)
(* C5: no call panics, whatever the configuration and the failure.         *)
(***************************************************************************)
C5_NeverPanics == pc # "panic"

(***************************************************************************)
(* C6: without debug no returned error carries a captured request or       *)
(* response; its extensions are the classification code alone or what      *)
(* the server sent.                                                        *)
(***************************************************************************)
ErrorCodes == {ErrRequestError, ErrJsonDecode, ErrGraphQLEncode, ErrGraphQLDecode,
               ErrGraphQLExtensionsDecode}

C6_DebugIsOptIn ==
    (~client.debug /\ pc = "done")
    => \A i \in DOMAIN retErr.errs :
          /\ ~HasCapture(retErr.errs[i])
          /\ \/ retErr.errs[i].extensions \in ServerExtensions
             \/ \E code \in ErrorCodes :
                   retErr.errs[i].extensions = [EmptyExtensions EXCEPT !.code = code]

C6_Witness ==
    /\ ~client.debug /\ pc = "done" /\ Answered
    /\ Len(envelope.errors) > 0
    /\ Len(retErr.errs) > Len(envelope.errors)

(***************************************************************************)
(* C7: with debug, the first error of an envelope that has errors carries  *)
(* the raw request and the raw response, whatever extensions the server    *)
(* gave it; later errors are not enriched.                                 *)
(***************************************************************************)
C7_FirstErrorCaptured ==
    ( /\ client.debug /\ Answered
      /\ resp.status = StatusOK
      /\ resp.contentEncoding = "" /\ ~resp.body.gz
      /\ envelope.kind = "envelope"
      /\ Len(envelope.errors) > 0 )
    => /\ pc = "done"
       /\ retErr.errs[1].extensions.internal.request.present
       /\ retErr.errs[1].extensions.internal.response.present
       /\ \A i \in DOMAIN envelope.errors : i > 1 => retErr.errs[i] = envelope.errors[i]

(***************************************************************************)
(* C8: per call the request modifier runs at most once and before          *)
(* Doer.Do; when building, encoding or constructing the request fails      *)
(* neither runs; without a modifier the request is sent unmodified.        *)
(***************************************************************************)
C8_ModifierOnceBeforeDo ==
    /\ Count(events, "modifier") <= 1
    /\ \A i, j \in DOMAIN events :
          (events[i] = "modifier" /\ events[j] = "do") => i < j
    /\ (pc # "idle" /\ (~call.buildOK \/ ~call.encodeOK \/ client.url = BadURL))
          => events = <<>>
    /\ client.requestModifier = NoModifier => Count(events, "modifier") = 0
    /\ Dispatched =>
          /\ events = IF client.requestModifier = NoModifier
                      THEN <<"do">> ELSE <<"modifier", "do">>
          /\ httpRequest.header =
                IF client.requestModifier = NoModifier
                THEN {"Content-Type"} ELSE {"Content-Type", client.requestModifier}

C8_Witness == pc = "done" /\ events = <<"modifier", "do">>

(***************************************************************************)
(* C9: a derivation changes no existing client (so the base and every      *)
(* sibling keep their url, transport, modifier and debug flag), the new    *)
(* client shares url and transport with the base, and a client made by     *)
(* WithDebug has the flag it was given.                                    *)
(***************************************************************************)
C9_DerivationNeverMutates ==
    [][ /\ \A i \in DOMAIN clients : clients'[i] = clients[i]
        /\ \A i \in DOMAIN clients' :
              /\ clients'[i].url = clients'[1].url
              /\ clients'[i].httpClient = clients'[1].httpClient
              /\ origin'[i].op = "WithDebug" => clients'[i].debug = origin'[i].debug ]_vars

\* two siblings derived from the base with different debug flags
C9_Witness ==
    \E i, j \in DOMAIN clients :
        /\ origin[i].op = "WithDebug" /\ origin[i].receiver = 1
        /\ origin[j].op = "WithDebug" /\ origin[j].receiver = 1
        /\ clients[i].debug /\ ~clients[j].debug
        /\ clients[1] = NewClient(clients[1].url, DefaultTransport)

(***************************************************************************)
(* C10: a returned error is nil or an Errors with at least one element,    *)
(* and it is non-nil and non-empty when Doer.Do failed.                    *)
(***************************************************************************)
C10_ErrorsNeverEmpty ==
    pc = "done"
    => /\ retErr.isNil \/ Len(retErr.errs) >= 1
       /\ (Dispatched /\ doResult.err) => (~retErr.isNil /\ Len(retErr.errs) >= 1)

C10_Witness ==
    pc = "done" /\ Dispatched /\ doResult.err /\ ~retErr.isNil /\ Len(retErr.errs) = 1

(***************************************************************************)
(* C11: the returned collection is the envelope's errors in their order,   *)
(* then a graphql_decode_error if data did not unmarshal, then a           *)
(* graphql_extensions_decode_error if extensions did not; a failing        *)
(* extensions decode leaves the output populated and a failing data        *)
(* decode does not stop the extensions decode.                             *)
(***************************************************************************)
\* The call returned after request decoded an uncompressed envelope.
EnvelopeProcessed ==
    /\ pc = "done" /\ Answered /\ call.kind \in TypedKinds
    /\ resp.status = StatusOK
    /\ resp.contentEncoding = "" /\ ~resp.body.gz
    /\ envelope.kind = "envelope"

DataFails == envelope.data = "misfits"
ExtensionsDecoded == call.bound /\ envelope.extensions # "absent"
ExtensionsFail == call.bound /\ envelope.extensions = "misfits"

ExpectedCodes ==
    [ i \in DOMAIN envelope.errors |-> envelope.errors[i].extensions.code ]
    \o (IF DataFails THEN <<ErrGraphQLDecode>> ELSE <<>>)
    \o (IF ExtensionsFail THEN <<ErrGraphQLExtensionsDecode>> ELSE <<>>)

C11_ErrorsAccumulateInOrder ==
    EnvelopeProcessed
    => /\ [ i \in DOMAIN retErr.errs |-> retErr.errs[i].extensions.code ] = ExpectedCodes
       /\ \A i \in DOMAIN envelope.errors :
             /\ Bare(retErr.errs[i]) = Bare(envelope.errors[i])
             /\ i > 1 => retErr.errs[i] = envelope.errors[i]
       /\ (ExtensionsFail /\ envelope.data = "fits") => output = "populated"
       /\ (DataFails /\ ExtensionsDecoded) => extOut # Untouched

C11_Witness ==
    /\ EnvelopeProcessed
    /\ Len(envelope.errors) = 2
    /\ envelope.errors[1].extensions.code # envelope.errors[2].extensions.code
    /\ DataFails /\ ExtensionsFail
    /\ Len(retErr.errs) = 4

C13_SingleRoundTrip ==
    /\ Count(events, "do") <= 1
    /\ Dispatched => pc \in {"done", "panic"}
    /\ (pc # "idle" /\ (~call.buildOK \/ ~call.encodeOK \/ client.url = BadURL))
          => Count(events, "do") = 0

C13_Witness ==
    /\ pc = "done" /\ Count(events, "do") = 1
    /\ ~doResult.err /\ ~Is2xx(resp.status) /\ ~retErr.isNil

(***************************************************************************)
(* C19: a response with any 2xx status is not classified as a network     *)
(* error and goes on to envelope decoding.                                 *)
(***************************************************************************)
IsNetworkError(e) == e.err.type = "NetworkError"

C19_Every2xxIsDecoded ==
    (pc = "done" /\ Answered /\ Is2xx(resp.status))
    => \A i \in DOMAIN retErr.errs : ~IsNetworkError(retErr.errs[i])

\* C19 as amended: status 200 alone is let through to envelope decoding; any
\* other status, 2xx or not, ends the call with one error and nothing decoded.
C19_Only200IsDecoded ==
    (pc = "done" /\ Answered)
    => IF resp.status = StatusOK
       THEN \A i \in DOMAIN retErr.errs : ~IsNetworkError(retErr.errs[i])
       ELSE /\ ~retErr.isNil /\ Len(retErr.errs) = 1
            /\ retErr.errs[1].extensions.code \in {ErrRequestError, ErrJsonDecode}
            /\ (resp.contentEncoding = "" =>
                   retErr.errs[1].err = NetworkError(resp.status, Text(resp.body, "all")))
            /\ output = Untouched /\ extOut = Untouched /\ retData = Nil

C19_Witness ==
    /\ pc = "done" /\ Answered
    /\ Is2xx(resp.status) /\ resp.status # StatusOK
    /\ resp.body.doc = SampleEnvelope /\ resp.contentEncoding = "" /\ ~resp.body.gz
    /\ IsNetworkError(retErr.errs[1])

SevenInputs == Len(osArgs) = 1 + 7

C14_SevenInputsAreAccepted ==
    (SevenInputs /\ mainPc # "start") => mainPc \notin {"fatal", "panic"}

(***************************************************************************)
(* C15: with neither dockerfilePath nor dockerfile, runDockerBuild returns *)
(* its error without writing a file or running docker build; otherwise     *)
(* docker build runs exactly once, on ./Dockerfile written from the inline *)
(* content when there is some, else on dockerfilePath.                     *)
(***************************************************************************)
Ops(op) == { i \in DOMAIN effects : effects[i].op = op }
Builds == Ops("docker build")
DockerfileWrites == { i \in Ops("os.WriteFile") : effects[i].target = DotDockerfile }
BuildRan == Len(steps) >= 3
BuildErr == steps[3].err
NothingToBuild == locals.dockerfilePath = Empty /\ locals.dockerfile = Empty

C15_BuildsOnceWhenASourceIsGiven ==
    BuildRan =>
        IF NothingToBuild
        THEN BuildErr = ErrNoDockerfile /\ Builds = {} /\ DockerfileWrites = {}
        ELSE Cardinality(Builds) = 1

\* C15 as amended: a failed write of ./Dockerfile is returned and nothing is built.
C15_BuildsOnceUnlessWriteFails ==
    BuildRan =>
        IF NothingToBuild
        THEN BuildErr = ErrNoDockerfile /\ Builds = {} /\ DockerfileWrites = {}
        ELSE IF locals.dockerfile # Empty /\ BuildErr = "WriteFile"
        THEN Builds = {} /\ Cardinality(DockerfileWrites) = 1
        ELSE /\ Cardinality(Builds) = 1
             /\ \A b \in Builds :
                  IF locals.dockerfile # Empty
                  THEN /\ effects[b].arg = DotDockerfile
                       /\ \E w \in DockerfileWrites :
                             w < b /\ effects[w].arg = locals.dockerfile
                  ELSE effects[b].arg = locals.dockerfilePath /\ DockerfileWrites = {}

C15_Witness ==
    /\ BuildRan /\ BuildErr = NoErr
    /\ locals.dockerfile # Empty /\ locals.dockerfilePath # Empty
    /\ \E b \in Builds : effects[b].arg = DotDockerfile

(***************************************************************************)
(* C17: the steps run once each in the order getBearerToken,               *)
(* updateDockerConfig, runDockerBuild, runDockerPush, setOutput,           *)
(* addArtifact; a step runs only if every earlier one succeeded, and the   *)
(* location output is already set when addArtifact fails.                  *)
(***************************************************************************)
StepOrder == <<"getBearerToken", "updateDockerConfig", "runDockerBuild",
               "runDockerPush", "setOutput", "addArtifact">>
Succeeded(name) == \E i \in DOMAIN steps : steps[i].name = name /\ steps[i].err = NoErr

C17_StepsInOrderUntilFirstFailure ==
    /\ Len(steps) <= Len(StepOrder)
    /\ \A i \in DOMAIN steps :
         /\ steps[i].name = StepOrder[i]
         /\ i < Len(steps) => steps[i].err = NoErr
    /\ (Len(steps) > 0 /\ steps[Len(steps)].err # NoErr) => mainPc = "fatal"
    /\ mainPc = "fatal" => steps[Len(steps)].err # NoErr
    /\ Ops("docker push") # {} => Succeeded("runDockerBuild")
    /\ Ops("set-output") # {} => Succeeded("runDockerPush")
    /\ Ops("Mutate") # {} => Succeeded("runDockerPush") /\ Succeeded("setOutput")
    /\ \A op \in {"docker build", "docker push", "set-output", "Mutate"} :
         Cardinality(Ops(op)) <= 1
    /\ (Len(steps) = 6 /\ steps[6].err # NoErr) =>
         \E i \in Ops("set-output") : \A j \in Ops("Mutate") : i < j

C17_Witness ==
    /\ mainPc = "fatal" /\ fatal = "Failed to add artifact"
    /\ Len(steps) = 6
    /\ Ops("set-output") # {} /\ Ops("Mutate") # {}

(***************************************************************************)
(* C18: the tag built, the reference pushed, the location output and the   *)
(* registry URL of the mutation are all                                    *)
(* registry.trynova.ai/<imageName>:<imageTag>, and the artifact version is *)
(* imageTag.                                                               *)
(***************************************************************************)
ImageRef == S("registry.trynova.ai") \o S("/") \o locals.imageName \o S(":") \o locals.imageTag

C18_OneImageReference ==
    \A i \in DOMAIN effects :
        /\ effects[i].op \in {"docker build", "docker push", "Mutate"} =>
              effects[i].target = ImageRef
        /\ effects[i].op = "set-output" =>
              effects[i].target = S("location") /\ effects[i].arg = ImageRef
        /\ effects[i].op = "Mutate" => effects[i].version = locals.imageTag

C18_Witness ==
    /\ mainPc = "completed"
    /\ Len(locals.imageName) > 1
    /\ \A op \in {"docker build", "docker push", "set-output", "Mutate"} : Ops(op) # {}

(***************************************************************************)
(* C16: whatever the interleaving of calls on a client and on clients      *)
(* derived from it, no step of a call writes a client value or another     *)
(* call's locals, and the request a call sends and the data and errors it  *)
(* returns are those its own inputs and its own transport response give.   *)
(***************************************************************************)
RequestOf(p) ==
    requestPrepare(clients[calls[p].client], calls[p].in.query, calls[p].in.encodeOK)

OwnResults(p) ==
    LET rec == calls[p]
        cl == clients[rec.client]
    IN /\ rec.pc = "sent" =>
             /\ rec.httpRequest = RequestOf(p).request
             /\ rec.httpRequest.body = rec.in.query
       /\ (rec.pc \in {"done", "panic"} /\ rec.doResult # NoDoResult) =>
             /\ rec.httpRequest.body = rec.in.query
             /\ rec.out = finish(cl, rec.in.kind, rec.in.bound,
                                 requestReceive(cl, RequestOf(p).request, rec.doResult))

Isolated == \A p \in Callers : OwnResults(p)

C16_CallsDoNotInterfere ==
    [][ /\ calls' # calls =>
             /\ clients' = clients
             /\ \A p, q \in Callers :
                  (p # q /\ calls'[p] # calls[p]) => calls'[q] = calls[q]
        /\ \A i \in DOMAIN clients : clients'[i] = clients[i]
        /\ Isolated' ]_vars

\* two calls in flight at once on different clients, then answered differently
C16_Witness ==
    /\ calls["a"].pc = "done" /\ calls["b"].pc = "done"
    /\ calls["a"].client # calls["b"].client
    /\ calls["a"].in.query # calls["b"].in.query
    /\ calls["a"].doResult # NoDoResult /\ calls["b"].doResult # NoDoResult
    /\ calls["a"].doResult # calls["b"].doResult
    /\ calls["a"].out.err.isNil /\ ~calls["b"].out.err.isNil

====
